---- MODULE Spec2Model ----
(***************************************************************************)
(* Model of usempl_plots/usempl_streaks.py: the PAYEMS series loader       *)
(* get_usempl_data() and the streak segmentation and rendering pass of     *)
(* usempl_streaks().                                                       *)
(*                                                                         *)
(* Dates are month starts, written as a month index: 1 is 1919-01-01,      *)
(* 241 is 1939-01-01.  A DataFrame is the sequence of its rows, a row a    *)
(* record of its columns; the row with label i (counted from 0, as the     *)
(* code counts) is element i + 1 of the sequence.                          *)
(***************************************************************************)
EXTENDS Integers, Sequences, FiniteSets, TLC

\* ------------------------------------------------------------------ bounds
\* Longest observation sequence handed to the segmentation pass.
MaxObs == 7
\* Level of the first observation of a generated series.
BaseLevel == 10
\* Longest source content of any shape, and the months its rows are dated.
MaxRows == 3
\* Level of the first year of the annual averages file.
AnnualLevel == 8
\* Month-over-month changes the generated series are built from.
GainChoices == {-1, 0, 1, 2}
\* The gain sequences of the documented scenarios, and one with a streak
\* large enough to be highlighted in the chart.
Scenarios ==
    {<<5, 3, -1, 2, 2, 2>>, <<-1, -1, 1>>, <<1, 1, 1>>, <<10001, -1, 2>>}

\* ------------------------------------------------------- values and dates
\* numpy's NaN: the value of a missing cell.  Every comparison with it is
\* false, which Gt and Le below state.
NaN == -1000000

IsNaN(x) == x = NaN

Gt(x, y) == ~IsNaN(x) /\ ~IsNaN(y) /\ x > y

Le(x, y) == ~IsNaN(x) /\ ~IsNaN(y) /\ x <= y

\* Year of month index 1.
BaseYear == 1919

MonthsPerYear == 12

\* dt.datetime(1939, 1, 1), the first month asked of FRED.
StartDate == 241

YearOf(d) == BaseYear + ((d - 1) \div MonthsPerYear)

MonthOf(d) == ((d - 1) % MonthsPerYear) + 1

\* strftime("%Y-%m")
StrfYm(d) == <<YearOf(d), MonthOf(d)>>

\* strftime("%Y-%m-%d") of a month start
StrfYmd(d) == <<YearOf(d), MonthOf(d), 1>>

\* dt.datetime.strptime(s, "%Y-%m-%d") on a month start
StrpYmd(s) == (s[1] - BaseYear) * MonthsPerYear + s[2]

\* A quotient a / b, kept exact as numerator and denominator.
Ratio(a, b) == [num |-> a, den |-> b]

NaNRatio == Ratio(NaN, 1)

RECURSIVE SeqMin(_)
SeqMin(s) ==
    IF Len(s) = 1 THEN s[1]
    ELSE LET m == SeqMin(Tail(s)) IN IF s[1] < m THEN s[1] ELSE m

RECURSIVE SeqMax(_)
SeqMax(s) ==
    IF Len(s) = 1 THEN s[1]
    ELSE LET m == SeqMax(Tail(s)) IN IF s[1] > m THEN s[1] ELSE m

\* ------------------------------------------------------------- the loader
\* Years of the early period in the model (the code's period is 1919-1938;
\* the model keeps its last years, up to 1938-12-01).
ExtYears == 2

\* First and last month of pd.date_range(..., "1938-12-01", freq="MS").
ExtLast == StartDate - 1

ExtFirst == StartDate - ExtYears * MonthsPerYear

\* The last row label of .loc[:242, "PAYEMS"]: the months of the early
\* period are rows 0..239 of the merged frame, and the slice reaches two
\* rows further.
InterpLast == ExtYears * MonthsPerYear + 2

\* interp1d(kind="cubic") needs this many known points.
CubicMinPoints == 4

\* "usempl_" + end_date_str + ".csv"
FileName(ymd) == <<"usempl_", ymd, ".csv">>

\* "usempl_" + end_date_str2 + "_streaks.csv"
StreaksFileName(ymd) == <<"usempl_", ymd, "_streaks.csv">>

\* filename_annual
AnnualFileName == <<"usempl_anual_1919-1938.csv">>

\* DataFrame.to_csv(..., index=False): a header line, then the rows.
ToCsv(rows) == [header |-> <<"Date", "PAYEMS">>, lines |-> rows]

\* pd.read_csv(..., names=["Date", "PAYEMS"], skiprows=1): the first line
\* is skipped, the rest are rows.
ReadCsv(file) == file.lines

\* The place of row r in a frame sorted by Date: after the rows dated no
\* later, so that rows of one date keep their order.
RECURSIVE Insert(_, _)
Insert(r, s) ==
    IF s = <<>> THEN <<r>>
    ELSE IF s[Len(s)].Date <= r.Date THEN Append(s, r)
    ELSE Append(Insert(r, SubSeq(s, 1, Len(s) - 1)), s[Len(s)])

\* sort_index() / sort_values(by="Date") followed by reset_index
RECURSIVE SortByDate(_)
SortByDate(rows) ==
    IF rows = <<>> THEN <<>>
    ELSE Insert(rows[Len(rows)], SortByDate(SubSeq(rows, 1, Len(rows) - 1)))

\* dropna() followed by reset_index(drop=True)
DropNa(rows) == SelectSeq(rows, LAMBDA r : ~IsNaN(r.PAYEMS))

\* The months of months_df no row of the frame is dated, oldest first.
RECURSIVE MissingMonths(_, _)
MissingMonths(rows, d) ==
    IF d > ExtLast THEN <<>>
    ELSE (IF \E k \in 1..Len(rows) : rows[k].Date = d
          THEN <<>> ELSE <<[Date |-> d, PAYEMS |-> NaN]>>)
         \o MissingMonths(rows, d + 1)

\* pd.merge(usempl_df, months_df, on="Date", how="outer"), sorted by Date:
\* every row of the frame, and one row without a level for each month of
\* months_df the frame does not have.
MergeMonths(rows) == SortByDate(rows \o MissingMonths(rows, ExtFirst))

\* The rows of the slice .loc[:InterpLast] that hold a level.
KnownIn(rows) ==
    {k \in 1..Len(rows) : k <= InterpLast + 1 /\ ~IsNaN(rows[k].PAYEMS)}

\* Whether the slice has both a missing value and a known one, the case
\* in which interpolate() calls the spline.
NeedsSpline(rows) ==
    /\ KnownIn(rows) # {}
    /\ \E k \in 1..Len(rows) : k <= InterpLast + 1 /\ IsNaN(rows[k].PAYEMS)

\* The value set in row k, between the known rows lo and hi.  The spline's
\* value is replaced by the point on the straight line between the two
\* neighbours, rounded down: which rows are filled is as in the code, the
\* filled value is a stand-in.
Between(rows, lo, hi, k) ==
    rows[lo].PAYEMS
        + ((rows[hi].PAYEMS - rows[lo].PAYEMS) * (k - lo)) \div (hi - lo)

\* usempl_df.loc[:242, "PAYEMS"].interpolate(method="cubic"): a row of the
\* slice without a level gets one when a known row lies before it and a
\* known row lies after it; rows before the first or after the last known
\* row stay missing.
Interpolate(rows) ==
    LET known == KnownIn(rows)
    IN [k \in 1..Len(rows) |->
          IF /\ k <= InterpLast + 1
             /\ IsNaN(rows[k].PAYEMS)
             /\ \E a \in known : a < k
             /\ \E b \in known : b > k
          THEN LET lo == CHOOSE a \in known :
                            a < k /\ \A c \in known : c < k => c <= a
                   hi == CHOOSE b \in known :
                            b > k /\ \A c \in known : c > k => b <= c
               IN [rows[k] EXCEPT !.PAYEMS = Between(rows, lo, hi, k)]
          ELSE rows[k]]

\* usempl_df["PAYEMS"].diff(): NaN in the first row, then each row's level
\* minus the level of the row before it.
Diff(rows) ==
    [k \in 1..Len(rows) |->
        [Date |-> rows[k].Date,
         PAYEMS |-> rows[k].PAYEMS,
         empl_mth_gain |->
            IF k = 1 \/ IsNaN(rows[k].PAYEMS) \/ IsNaN(rows[k - 1].PAYEMS)
            THEN NaN
            ELSE rows[k].PAYEMS - rows[k - 1].PAYEMS]]

\* The exceptions get_usempl_data raises: a file that is not there, .iloc[-1]
\* on an empty frame, a spline through too few points.
FileNotFoundError == "FileNotFoundError"

IndexError == "IndexError: single positional indexer is out-of-bounds"

SplineError == "ValueError: interpolate(method='cubic')"

LoaderErrors == {FileNotFoundError, IndexError, SplineError}

\* The outcome of a call of get_usempl_data.
NoFile == <<>>

Raised(e, files, w, r) ==
    [err |-> e, df |-> <<>>, end_date_str2 |-> <<>>, fs |-> files,
     wrote |-> w, read |-> r]

\* Lines 163-170: dropna, reset_index, diff, return.
Returned(rows, ymd, files, w, r) ==
    [err |-> "", df |-> Diff(DropNa(rows)), end_date_str2 |-> ymd,
     fs |-> files, wrote |-> w, read |-> r]

\* Lines 106-150, after the monthly frame d0 was written to fname.
WithAnnual(d0, ymd, fname, files) ==
    IF AnnualFileName \notin DOMAIN files
    THEN Raised(FileNotFoundError, files, fname, NoFile)
    ELSE LET d1 == SortByDate(ReadCsv(files[AnnualFileName]) \o d0)
             files2 == [files EXCEPT ![fname] = ToCsv(d1)]
             d2 == MergeMonths(d1)
         IN IF NeedsSpline(d2) /\ Cardinality(KnownIn(d2)) < CubicMinPoints
            THEN Raised(SplineError, files2, fname, NoFile)
            ELSE Returned(Interpolate(d2), ymd, files2, fname, NoFile)

\* Lines 92-150: download_from_internet is true.  fred is what FredReader
\* read.
Download(include_annual_1919, files, fred) ==
    LET d0 == SortByDate(fred)
    IN IF d0 = <<>>
       THEN Raised(IndexError, files, NoFile, NoFile)
       ELSE LET ymd == StrfYmd(d0[Len(d0)].Date)
                fname == StreaksFileName(ymd)
                files1 == (fname :> ToCsv(d0)) @@ files
            IN IF include_annual_1919
               THEN WithAnnual(d0, ymd, fname, files1)
               ELSE Returned(d0, ymd, files1, fname, NoFile)

\* Lines 151-161: the series is read from the data directory.
ReadLocal(end_date_str, files) ==
    IF FileName(end_date_str) \notin DOMAIN files
    THEN Raised(FileNotFoundError, files, NoFile, NoFile)
    ELSE Returned(ReadCsv(files[FileName(end_date_str)]), end_date_str, files,
                  NoFile, FileName(end_date_str))

get_usempl_data(end_date_str, download_from_internet, include_annual_1919, files, fred) ==
    IF download_from_internet
    THEN Download(include_annual_1919, files, fred)
    ELSE ReadLocal(end_date_str, files)

\* ------------------------------------------------------------------ state
VARIABLES
    args,               \* end_date_str, download_from_internet, include_annual_1919
    fs,                 \* the files of the data directory, by name
    fred,               \* the PAYEMS rows FredReader reads
    runs,               \* calls of get_usempl_data so far
    wrote, read,        \* the file the last download wrote, the file last read
    end_date_str2,
    pc,                 \* position in usempl_streaks
    err,                \* the exception raised, "" while none
    usempl_df,          \* the DataFrame get_usempl_data returned
    i, j,
    strk_num, strk_mths, strk_cum,
    strk_df,            \* the open streak's DataFrame
    strk_start_mth_str,
    strk_df_lst, strk_cds_lst, strk_label_lst,
    min_gain_val_lst, max_gain_val_lst,
    min_cum_val_lst, max_cum_val_lst,
    min_mth_val_lst, max_mth_val_lst,
    extrema,            \* min_cum_val, max_cum_val, min_mth_val, max_mth_val
    fig_lst             \* the lines drawn on the figure

vars == <<args, fs, fred, runs, wrote, read, end_date_str2,
          pc, err, usempl_df, i, j, strk_num, strk_mths, strk_cum, strk_df,
          strk_start_mth_str, strk_df_lst, strk_cds_lst, strk_label_lst,
          min_gain_val_lst, max_gain_val_lst, min_cum_val_lst,
          max_cum_val_lst, min_mth_val_lst, max_mth_val_lst, extrema,
          fig_lst>>

loadVars == <<args, fs, fred, runs, wrote, read, end_date_str2>>

loopVars == <<j, strk_num, strk_mths, strk_cum, strk_df, strk_start_mth_str,
              strk_df_lst, strk_cds_lst, strk_label_lst,
              min_gain_val_lst, max_gain_val_lst, min_cum_val_lst,
              max_cum_val_lst, min_mth_val_lst, max_mth_val_lst>>

NoExtrema == [min_cum_val |-> NaN, max_cum_val |-> NaN,
              min_mth_val |-> NaN, max_mth_val |-> NaN]

\* The level series of n consecutive months from StartDate whose changes
\* are g[1], ..., g[n - 1].
RECURSIVE Levels(_, _)
Levels(g, k) ==
    IF k = 1 THEN BaseLevel ELSE Levels(g, k - 1) + g[k - 1]

SeriesOf(g) ==
    [k \in 1..(Len(g) + 1) |->
        [Date |-> StartDate + k - 1, PAYEMS |-> Levels(g, k)]]

GainSeqs ==
    Scenarios \cup UNION {[1..n -> GainChoices] : n \in 0..(MaxObs - 1)}

\* The files of well-formed series: no rows, or consecutive months.
SeriesFiles == {<<>>} \cup {SeriesOf(g) : g \in GainSeqs}

\* The annual averages file: one row, dated July 1, for each year of the
\* early period.
AnnualRows ==
    [y \in 1..ExtYears |->
        [Date |-> ExtFirst + 6 + (y - 1) * MonthsPerYear,
         PAYEMS |-> AnnualLevel + y - 1]]

AnnualFs == AnnualFileName :> ToCsv(AnnualRows)

\* The end date asked for.
EndArg == StrfYmd(StartDate + MonthsPerYear - 1)

\* Source contents of any shape: rows in any order, dates that repeat,
\* levels that are missing.
AnyRow ==
    [Date : StartDate..(StartDate + MaxRows - 1), PAYEMS : {BaseLevel, BaseLevel + 2, NaN}]

AnyContent == UNION {[1..n -> AnyRow] : n \in 0..MaxRows}

\* ------------------------------------------------------- usempl_streaks
Row(k) == usempl_df[k + 1]

GainAt(k) == Row(k).empl_mth_gain

\* Mutant: the test is >= 0.
IsGain_NonNegative(k) == ~IsNaN(GainAt(k)) /\ GainAt(k) >= 0

\* usempl_df.loc[i, "empl_mth_gain"] > 0
IsGain(k) == Gt(GainAt(k), 0)

\* Mutant: only a negative gain closes the streak.
EndsStreak_Negative(k) ==
    ~IsNaN(GainAt(k)) /\ GainAt(k) < 0 /\ k > 0 /\ Gt(GainAt(k - 1), 0)

\* the elif: a non-positive gain right after a positive one
EndsStreak(k) == Le(GainAt(k), 0) /\ k > 0 /\ Gt(GainAt(k - 1), 0)

\* Mutant: the last row is taken to be row shape[0].
IsLastRow_OffByOne(k) == k = Len(usempl_df)

\* i == usempl_df.shape[0] - 1
IsLastRow(k) == k = Len(usempl_df) - 1

\* strk_df.loc[k, ...] = row: write the row with label k, enlarging the
\* frame when there is none.
SetLoc(df, k, row) ==
    IF k < Len(df) THEN [df EXCEPT ![k + 1] = row] ELSE Append(df, row)

\* Mutant: floor division.
AvgGain_Floor(cum, mths) == Ratio(cum \div mths, 1)

\* strk_cum / strk_mths
AvgGain(cum, mths) == Ratio(cum, mths)

\* strk_df["strk_mths_tot"] = ..., ["strk_avg_emp_gain"] = ...,
\* ["strk_cum_tot"] = ...: the three columns are set in every row.
Finalize(df, mths, cum) ==
    [k \in 1..Len(df) |->
        [df[k] EXCEPT !.strk_mths_tot = mths,
                      !.strk_avg_emp_gain = AvgGain(cum, mths),
                      !.strk_cum_tot = cum]]

Col(df, c) == [k \in 1..Len(df) |-> df[k][c]]

\* strk_start_mth_str + " to " + strk_end_mth_str
Label(start, end) == [from |-> start, to |-> end]

\* The appends that follow the finalisation of a streak.
AppendStreak(df, label) ==
    /\ strk_label_lst' = Append(strk_label_lst, label)
    /\ strk_df_lst' = Append(strk_df_lst, df)
    /\ strk_cds_lst' = Append(strk_cds_lst, df)
    /\ min_gain_val_lst' = Append(min_gain_val_lst, SeqMin(Col(df, "empl_mth_gain")))
    /\ max_gain_val_lst' = Append(max_gain_val_lst, SeqMax(Col(df, "empl_mth_gain")))
    /\ min_cum_val_lst' = Append(min_cum_val_lst, SeqMin(Col(df, "strk_cum")))
    /\ max_cum_val_lst' = Append(max_cum_val_lst, SeqMax(Col(df, "strk_cum")))
    /\ min_mth_val_lst' = Append(min_mth_val_lst, SeqMin(Col(df, "strk_mths")))
    /\ max_mth_val_lst' = Append(max_mth_val_lst, SeqMax(Col(df, "strk_mths")))

\* The exceptions usempl_streaks raises: .loc[0, "Date"] on an empty frame,
\* min() of an empty list, an index past the end of a list.
KeyError == "KeyError: 0"

EmptyMinError == "ValueError: min() arg is an empty sequence"

ListIndexError == "IndexError: list index out of range"

\* Lines 232-243.
Fresh ==
    /\ i = 0
    /\ j = 0
    /\ strk_num = 0
    /\ strk_mths = 0
    /\ strk_cum = 0
    /\ strk_df = <<>>
    /\ strk_start_mth_str = <<>>
    /\ strk_df_lst = <<>>
    /\ strk_cds_lst = <<>>
    /\ strk_label_lst = <<>>
    /\ min_gain_val_lst = <<>>
    /\ max_gain_val_lst = <<>>
    /\ min_cum_val_lst = <<>>
    /\ max_cum_val_lst = <<>>
    /\ min_mth_val_lst = <<>>
    /\ max_mth_val_lst = <<>>
    /\ extrema = NoExtrema
    /\ fig_lst = <<>>

NotCalled ==
    /\ pc = "start"
    /\ err = ""
    /\ runs = 0
    /\ wrote = NoFile
    /\ read = NoFile
    /\ end_date_str2 = <<>>
    /\ usempl_df = <<>>

\* usempl_streaks(download_from_internet=False) on the file of a
\* well-formed series.
Init ==
    /\ args = [end_date_str |-> EndArg,
               download_from_internet |-> FALSE,
               include_annual_1919 |-> TRUE]
    /\ fred = <<>>
    /\ \E rows \in SeriesFiles :
          fs = (FileName(EndArg) :> ToCsv(rows)) @@ AnnualFs
    /\ NotCalled
    /\ Fresh

\* usempl_streaks on source contents of any shape, in either mode, with
\* and without the early period; the local file may be missing.
InitLoad ==
    /\ \E d \in BOOLEAN, a \in BOOLEAN :
          args = [end_date_str |-> EndArg,
                  download_from_internet |-> d,
                  include_annual_1919 |-> a]
    /\ \/ /\ args.download_from_internet
          /\ fred \in AnyContent
          /\ fs = AnnualFs
       \/ /\ ~args.download_from_internet
          /\ fred = <<>>
          /\ \/ fs = AnnualFs
             \/ \E rows \in AnyContent :
                   fs = (FileName(EndArg) :> ToCsv(rows)) @@ AnnualFs
    /\ NotCalled
    /\ Fresh

\* The outcome of a call of get_usempl_data taken over by the caller.
TakeOver(r) ==
    /\ fs' = r.fs
    /\ usempl_df' = r.df
    /\ end_date_str2' = r.end_date_str2
    /\ read' = r.read
    /\ IF r.err = "" THEN pc' = "print" /\ err' = ""
                     ELSE pc' = "error" /\ err' = r.err

\* Lines 209-220: the call of get_usempl_data.
Load ==
    /\ pc = "start"
    /\ LET r == get_usempl_data(args.end_date_str, args.download_from_internet,
                                args.include_annual_1919, fs, fred)
       IN TakeOver(r) /\ wrote' = r.wrote
    /\ runs' = runs + 1
    /\ UNCHANGED <<args, fred, i, loopVars, extrema, fig_lst>>

\* After a download, get_usempl_data is called again to read the series
\* from the data directory, with the end date the download returned.
LoadAgain ==
    /\ pc = "print"
    /\ runs = 1
    /\ args.download_from_internet
    /\ args' = [args EXCEPT !.end_date_str = end_date_str2,
                            !.download_from_internet = FALSE]
    /\ LET r == get_usempl_data(end_date_str2, FALSE,
                                args.include_annual_1919, fs, fred)
       IN TakeOver(r)
    /\ runs' = runs + 1
    /\ UNCHANGED <<fred, wrote, i, loopVars, extrema, fig_lst>>

\* Lines 222-243: usempl_df.loc[0, "Date"] raises KeyError on an empty
\* frame; otherwise the lists and counters are set up.
PrintHeader ==
    /\ pc = "print"
    /\ IF Len(usempl_df) = 0
       THEN pc' = "error" /\ err' = KeyError
       ELSE pc' = "loop" /\ err' = err
    /\ UNCHANGED <<loadVars, usempl_df, i, loopVars, extrema, fig_lst>>

\* Lines 245-283: a row with positive gain.
LoopGain ==
    /\ pc = "loop"
    /\ i < Len(usempl_df)
    /\ IsGain(i)
    /\ LET opening == strk_mths = 0
           j1 == IF opening THEN i ELSE j
           df0 == IF opening THEN <<>> ELSE strk_df
           start == IF opening THEN StrfYm(Row(i).Date) ELSE strk_start_mth_str
           mths1 == strk_mths + 1
           cum1 == strk_cum + GainAt(i)
           row == [Date |-> Row(i).Date,
                   PAYEMS |-> Row(i).PAYEMS,
                   empl_mth_gain |-> GainAt(i),
                   strk_mths |-> mths1,
                   strk_cum |-> cum1,
                   strk_mths_tot |-> NaN,
                   strk_avg_emp_gain |-> NaNRatio,
                   strk_cum_tot |-> NaN]
           df1 == SetLoc(df0, i - j1, row)
           dfF == Finalize(df1, mths1, cum1)
       IN  /\ j' = j1
           /\ strk_num' = IF opening THEN strk_num + 1 ELSE strk_num
           /\ strk_start_mth_str' = start
           /\ strk_mths' = mths1
           /\ strk_cum' = cum1
           /\ IF IsLastRow(i)
              THEN /\ strk_df' = dfF
                   /\ AppendStreak(dfF, Label(start, StrfYm(Row(i).Date)))
              ELSE /\ strk_df' = df1
                   /\ UNCHANGED <<strk_df_lst, strk_cds_lst, strk_label_lst,
                                  min_gain_val_lst, max_gain_val_lst,
                                  min_cum_val_lst, max_cum_val_lst,
                                  min_mth_val_lst, max_mth_val_lst>>
    /\ i' = i + 1
    /\ UNCHANGED <<loadVars, pc, err, usempl_df, extrema, fig_lst>>

\* Mutant: the running cumulative gain is not reset when a streak closes.
LoopClose_KeepsCum ==
    /\ pc = "loop"
    /\ i < Len(usempl_df)
    /\ ~IsGain(i)
    /\ EndsStreak(i)
    /\ LET dfF == Finalize(strk_df, strk_mths, strk_cum)
       IN  /\ strk_df' = dfF
           /\ AppendStreak(dfF, Label(strk_start_mth_str, StrfYm(Row(i - 1).Date)))
    /\ strk_mths' = 0
    /\ i' = i + 1
    /\ UNCHANGED <<loadVars, pc, err, usempl_df, j, strk_num, strk_cum,
                   strk_start_mth_str, extrema, fig_lst>>

\* Lines 284-304: a non-positive gain right after a positive one closes the
\* open streak.
LoopClose ==
    /\ pc = "loop"
    /\ i < Len(usempl_df)
    /\ ~IsGain(i)
    /\ EndsStreak(i)
    /\ LET dfF == Finalize(strk_df, strk_mths, strk_cum)
       IN  /\ strk_df' = dfF
           /\ AppendStreak(dfF, Label(strk_start_mth_str, StrfYm(Row(i - 1).Date)))
    /\ strk_mths' = 0
    /\ strk_cum' = 0
    /\ i' = i + 1
    /\ UNCHANGED <<loadVars, pc, err, usempl_df, j, strk_num, strk_start_mth_str,
                   extrema, fig_lst>>

\* Neither branch is taken: the first row (its gain is NaN) and a
\* non-positive gain with no streak open.
LoopSkip ==
    /\ pc = "loop"
    /\ i < Len(usempl_df)
    /\ ~IsGain(i)
    /\ ~EndsStreak(i)
    /\ i' = i + 1
    /\ UNCHANGED <<loadVars, pc, err, usempl_df, loopVars, extrema, fig_lst>>

\* Lines 306-325: the loop is over.
LoopEnd ==
    /\ pc = "loop"
    /\ i = Len(usempl_df)
    /\ pc' = "extrema"
    /\ UNCHANGED <<loadVars, err, usempl_df, i, loopVars, extrema, fig_lst>>

\* Mutant: the minima are taken over the streaks' totals.
GlobalExtrema_OfTotals ==
    [min_cum_val |-> SeqMin(max_cum_val_lst),
     max_cum_val |-> SeqMax(max_cum_val_lst),
     min_mth_val |-> SeqMin(max_mth_val_lst),
     max_mth_val |-> SeqMax(max_mth_val_lst)]

\* min(...) and max(...) of the per-streak lists.
GlobalExtrema ==
    [min_cum_val |-> SeqMin(min_cum_val_lst),
     max_cum_val |-> SeqMax(max_cum_val_lst),
     min_mth_val |-> SeqMin(min_mth_val_lst),
     max_mth_val |-> SeqMax(max_mth_val_lst)]

\* Lines 329-335: min() of an empty list raises ValueError.
Extrema ==
    /\ pc = "extrema"
    /\ IF Len(min_cum_val_lst) = 0
       THEN pc' = "error" /\ err' = EmptyMinError /\ extrema' = extrema
       ELSE pc' = "render" /\ err' = err /\ extrema' = GlobalExtrema
    /\ UNCHANGED <<loadVars, usempl_df, i, loopVars, fig_lst>>

\* Thresholds of the highlighted streaks.
BigCum == 10000

BigMths == 40

IsBig(k) == max_cum_val_lst[k] > BigCum \/ max_mth_val_lst[k] > BigMths

\* The value of j after the rendering loop has handled streaks 1..k.
BigBefore(k) == Cardinality({m \in 1..k : IsBig(m)}) - 1

\* The line drawn for streak k: fig.line(..., source=strk_cds_lst[i], ...)
Line(k) ==
    [source |-> strk_cds_lst[k],
     color |-> IF IsBig(k) THEN <<"Viridis8", 7 - BigBefore(k)>>
                           ELSE <<"orange">>]

\* Lines 336-525: the figure, one line per i in range(strk_num), the
\* legend and titles, and the return.
Render ==
    /\ pc = "render"
    /\ IF strk_num > Len(strk_cds_lst) \/ strk_num > Len(max_cum_val_lst)
       THEN pc' = "error" /\ err' = ListIndexError /\ fig_lst' = fig_lst
       ELSE pc' = "done" /\ err' = err
            /\ fig_lst' = [k \in 1..strk_num |-> Line(k)]
    /\ UNCHANGED <<loadVars, usempl_df, i, loopVars, extrema>>

Next ==
    \/ Load
    \/ PrintHeader
    \/ LoopGain
    \/ LoopClose
    \/ LoopSkip
    \/ LoopEnd
    \/ Extrema
    \/ Render

Spec == Init /\ [][Next]_vars

NextLoad ==
    \/ LoadAgain
    \/ Next

SpecLoad == InitLoad /\ [][NextLoad]_vars

\* ------------------------------------------------------ the properties
\* The segmentation loop has handled every row of a loaded series.
Segmented ==
    \/ pc \in {"extrema", "render", "done"}
    \/ pc = "error" /\ err = EmptyMinError

Obs == 1..Len(usempl_df)

\* Observation r (counted from 1) has a strictly positive gain.
PositiveAt(r) ==
    usempl_df[r].empl_mth_gain # NaN /\ usempl_df[r].empl_mth_gain > 0

\* The gain column of the loaded series.
Gains == [r \in Obs |-> usempl_df[r].empl_mth_gain]

Streaks == 1..Len(strk_df_lst)

\* The places <<streak, row>> of the collection that hold observation r.
PlacesOf(r) ==
    {sk \in UNION {{<<s, k>> : k \in 1..Len(strk_df_lst[s])} : s \in Streaks} :
        strk_df_lst[sk[1]][sk[2]].Date = usempl_df[r].Date}

\* The observation a streak starts with.
StartObs(s) == CHOOSE r \in Obs : usempl_df[r].Date = strk_df_lst[s][1].Date

RECURSIVE SeqSum(_)
SeqSum(q) == IF q = <<>> THEN 0 ELSE q[1] + SeqSum(Tail(q))

MemberGains(s) ==
    [k \in 1..Len(strk_df_lst[s]) |-> strk_df_lst[s][k].empl_mth_gain]

\* The observations a maximal run of positive gains starts with.
RunStarts == {r \in Obs : PositiveAt(r) /\ (r = 1 \/ ~PositiveAt(r - 1))}

\* C1: after the segmentation pass every observation with strictly
\* positive gain is a member of exactly one streak, every observation with
\* zero, negative or undefined gain is a member of none, and the
\* observation right before a streak's first member is not a member of
\* that streak.
C1_Membership ==
    Segmented =>
        /\ \A r \in Obs :
              Cardinality(PlacesOf(r)) = IF PositiveAt(r) THEN 1 ELSE 0
        /\ \A s \in Streaks :
              /\ strk_df_lst[s] # <<>>
              /\ \E r \in Obs : usempl_df[r].Date = strk_df_lst[s][1].Date
              /\ StartObs(s) > 1 =>
                    \A sk \in PlacesOf(StartObs(s) - 1) : sk[1] # s

C1_Witness ==
    /\ pc = "done"
    /\ Len(strk_df_lst) >= 2
    /\ \E r \in Obs : r > 1 /\ usempl_df[r].empl_mth_gain = 0
    /\ \E r \in Obs : r > 1 /\ usempl_df[r].empl_mth_gain = -1
    /\ \E r \in Obs : PositiveAt(r)

\* C2: every streak of the collection records, in each of its rows, a total
\* length equal to its number of members, a total cumulative gain equal to
\* the sum of its members' gains, and an average gain equal to that sum
\* divided by that number; a streak of one member has its single gain as
\* average.  Streaks closed by a non-positive gain and the streak closed at
\* the end of the series alike.
C2_Totals ==
    \A s \in Streaks :
        \A k \in 1..Len(strk_df_lst[s]) :
            LET df == strk_df_lst[s]
                avg == df[k].strk_avg_emp_gain
            IN /\ df[k].strk_mths_tot = Len(df)
               /\ df[k].strk_cum_tot = SeqSum(MemberGains(s))
               /\ avg.den > 0
               /\ avg.num * Len(df) = SeqSum(MemberGains(s)) * avg.den
               /\ Len(df) = 1 => avg.num = df[1].empl_mth_gain * avg.den

C2_Witness ==
    /\ pc = "done"
    /\ Len(strk_df_lst) >= 2
    /\ PositiveAt(Len(usempl_df))
    /\ Len(strk_df_lst[1]) = 1
    /\ Len(strk_df_lst[Len(strk_df_lst)]) = 3
    /\ SeqSum(MemberGains(Len(strk_df_lst))) = 4

LexLess(a, b) == a[1] < b[1] \/ (a[1] = b[1] /\ a[2] < b[2])

\* C3: the streaks are maximal and ordered: each is a run of consecutive
\* observations, the observations right before and right after it (when
\* they exist) have no positive gain, no two streaks share an observation,
\* and the streaks, and their labels, stand in strictly increasing start
\* date.  The gains +5, +3, -1, +2, +2, +2 give the two streaks +5, +3 and
\* +2, +2, +2.
C3_MaximalOrdered ==
    Segmented =>
        /\ \A s \in Streaks :
              \E a \in Obs :
                  LET df == strk_df_lst[s]
                  IN /\ Len(df) >= 1
                     /\ a + Len(df) - 1 <= Len(usempl_df)
                     /\ \A k \in 1..Len(df) :
                           /\ df[k].Date = usempl_df[a + k - 1].Date
                           /\ df[k].PAYEMS = usempl_df[a + k - 1].PAYEMS
                           /\ df[k].empl_mth_gain = usempl_df[a + k - 1].empl_mth_gain
                     /\ a > 1 => ~PositiveAt(a - 1)
                     /\ a + Len(df) <= Len(usempl_df) => ~PositiveAt(a + Len(df))
        /\ \A s, t \in Streaks :
              s # t => \A k \in 1..Len(strk_df_lst[s]), m \in 1..Len(strk_df_lst[t]) :
                          strk_df_lst[s][k].Date # strk_df_lst[t][m].Date
        /\ Len(strk_label_lst) = Len(strk_df_lst)
        /\ \A s \in Streaks :
              s + 1 \in Streaks =>
                  /\ strk_df_lst[s][1].Date < strk_df_lst[s + 1][1].Date
                  /\ LexLess(strk_label_lst[s].from, strk_label_lst[s + 1].from)
        /\ Gains = <<NaN, 5, 3, -1, 2, 2, 2>> =>
              /\ Len(strk_df_lst) = 2
              /\ MemberGains(1) = <<5, 3>>
              /\ MemberGains(2) = <<2, 2, 2>>

C3_Witness ==
    /\ pc = "done"
    /\ Gains = <<NaN, 5, 3, -1, 2, 2, 2>>
    /\ Len(strk_df_lst) = 2
    /\ strk_label_lst = <<[from |-> <<1939, 2>>, to |-> <<1939, 3>>],
                          [from |-> <<1939, 5>>, to |-> <<1939, 7>>]>>

\* C4: when the last observation has a positive gain, the open streak is
\* closed at the end of the series by the rule of the other streaks: it is
\* the last streak of the collection, with its totals, its average and a
\* label that ends at the last observation's month; and no streak is
\* appended twice or left out: the collection holds one streak for each
\* maximal run of positive gains.  The gains +1, +1, +1 give one streak of
\* length 3.
C4_ClosedAtEnd ==
    Segmented =>
        /\ Len(strk_df_lst) = Cardinality(RunStarts)
        /\ Len(strk_label_lst) = Len(strk_df_lst)
        /\ Len(strk_cds_lst) = Len(strk_df_lst)
        /\ \A s, t \in Streaks : s # t => strk_df_lst[s] # strk_df_lst[t]
        /\ (usempl_df # <<>> /\ PositiveAt(Len(usempl_df))) =>
              /\ strk_df_lst # <<>>
              /\ LET s == Len(strk_df_lst)
                     df == strk_df_lst[s]
                     last == usempl_df[Len(usempl_df)]
                 IN /\ df[Len(df)].Date = last.Date
                    /\ strk_cds_lst[s] = df
                    /\ strk_label_lst[s] =
                          [from |-> <<YearOf(df[1].Date), MonthOf(df[1].Date)>>,
                           to |-> <<YearOf(last.Date), MonthOf(last.Date)>>]
                    /\ \A k \in 1..Len(df) :
                          /\ df[k].strk_mths_tot = Len(df)
                          /\ df[k].strk_cum_tot = SeqSum(MemberGains(s))
                          /\ df[k].strk_avg_emp_gain =
                                [num |-> SeqSum(MemberGains(s)), den |-> Len(df)]
        /\ Gains = <<NaN, 1, 1, 1>> =>
              Len(strk_df_lst) = 1 /\ Len(strk_df_lst[1]) = 3

C4_Witness ==
    /\ pc = "done"
    /\ Gains = <<NaN, 1, 1, 1>>
    /\ Len(strk_df_lst) = 1
    /\ strk_df_lst[1][3].strk_mths_tot = 3
    /\ strk_label_lst = <<[from |-> <<1939, 2>>, to |-> <<1939, 4>>]>>

SetMin(S) == CHOOSE x \in S : \A y \in S : x <= y

SetMax(S) == CHOOSE x \in S : \A y \in S : y <= x

\* Per streak: the total cumulative gain and the length.
StreakTotals == {SeqSum(MemberGains(s)) : s \in Streaks}

StreakLengths == {Len(strk_df_lst[s]) : s \in Streaks}

\* Per member: the running cumulative gain and the running month count.
RunningCums ==
    UNION {{strk_df_lst[s][k].strk_cum : k \in 1..Len(strk_df_lst[s])} : s \in Streaks}

RunningMths ==
    UNION {{strk_df_lst[s][k].strk_mths : k \in 1..Len(strk_df_lst[s])} : s \in Streaks}

ExtremaSet == pc \in {"render", "done"}

Loaded == runs >= 1 /\ err \notin LoaderErrors

\* C6: when the loaded series is empty or has exactly one observation, the
\* streak collection is empty and the run raises no error.
C6_ShortSeries ==
    (Loaded /\ Len(usempl_df) <= 1) =>
        /\ strk_df_lst = <<>>
        /\ pc # "error"

\* C7: when the series has two or more observations and none has a
\* strictly positive gain, the streak collection is empty, the chart has no
\* series, and the run reaches the rendering step and returns without an
\* error.
C7_NoStreaks ==
    (Loaded /\ Len(usempl_df) >= 2 /\ \A r \in Obs : ~PositiveAt(r)) =>
        /\ strk_df_lst = <<>>
        /\ fig_lst = <<>>
        /\ pc # "error"

\* A call of get_usempl_data has returned, and its result is in usempl_df.
Returns == runs >= 1 /\ pc = "print"

\* C8: in both modes and for every source content, the returned series is
\* sorted by date in increasing order, no two rows have the same date, and
\* the gain of every row after the first is its level minus the level of
\* the row before it.
C8_SortedDistinct ==
    Returns =>
        /\ \A r \in Obs : r + 1 \in Obs => usempl_df[r].Date <= usempl_df[r + 1].Date
        /\ \A r, q \in Obs : r # q => usempl_df[r].Date # usempl_df[q].Date
        /\ \A r \in Obs :
              r > 1 => usempl_df[r].empl_mth_gain =
                          usempl_df[r].PAYEMS - usempl_df[r - 1].PAYEMS

\* The rows of the sources: what FredReader read, and the lines of the
\* files of the data directory.
SourceRows ==
    {fred[k] : k \in 1..Len(fred)}
        \cup UNION {{fs[f].lines[k] : k \in 1..Len(fs[f].lines)} : f \in DOMAIN fs}

\* C9: with include_annual_1919 true, in either mode, the returned series
\* of a run that read monthly rows has every month from the first annual
\* anchor to the month before the monthly series, each with a level; and
\* only rows dated in the early period hold interpolated levels: every
\* other row holds a level of a source row of its date.
C9_EarlyPeriodFilled ==
    (/\ Returns
     /\ args.include_annual_1919
     /\ \E r \in Obs : usempl_df[r].Date >= StartDate) =>
        /\ \A d \in (ExtFirst + 6)..ExtLast :
              \E r \in Obs : usempl_df[r].Date = d /\ usempl_df[r].PAYEMS # NaN
        /\ \A r \in Obs :
              (usempl_df[r].Date < ExtFirst \/ usempl_df[r].Date > ExtLast) =>
                  \E row \in SourceRows :
                      row.Date = usempl_df[r].Date /\ row.PAYEMS = usempl_df[r].PAYEMS

\* C10: a download creates the file usempl_[yyyy-mm-dd].csv of the actual
\* end date, the file a local run reads for that end date: the local run
\* that follows a download, with the end date it returned, reads the file
\* the download wrote.
C10_SameFile ==
    /\ (Returns /\ runs = 1 /\ args.download_from_internet) =>
          /\ wrote = <<"usempl_", end_date_str2, ".csv">>
          /\ wrote \in DOMAIN fs
    /\ runs = 2 =>
          /\ err # FileNotFoundError
          /\ read = wrote

\* The running columns of a streak's frame: row k holds k and the sum of
\* the gains of rows 1..k.
RunningOk(df) ==
    \A k \in 1..Len(df) :
        /\ df[k].strk_mths = k
        /\ df[k].strk_cum = SeqSum([m \in 1..k |-> df[m].empl_mth_gain])

\* C11: the k-th member of every streak, closed or still open, is recorded
\* with strk_mths = k and strk_cum = the sum of the gains of the streak's
\* first k members; and while no streak is open the running length and the
\* running cumulative gain are both zero, so a streak that opens carries
\* nothing over from the one before it.
C11_RunningColumns ==
    /\ \A s \in Streaks : RunningOk(strk_df_lst[s])
    /\ (pc = "loop" /\ strk_mths > 0) =>
          /\ RunningOk(strk_df)
          /\ strk_mths = Len(strk_df)
          /\ strk_cum = SeqSum([m \in 1..Len(strk_df) |-> strk_df[m].empl_mth_gain])
    /\ (pc = "loop" /\ strk_mths = 0) => strk_cum = 0

C11_Witness ==
    /\ pc = "loop"
    /\ Len(strk_df_lst) = 1
    /\ Len(strk_df_lst[1]) = 2
    /\ strk_df_lst[1][2].strk_cum = 3
    /\ strk_mths = 2
    /\ strk_cum = 2
    /\ strk_df[1].strk_cum = 1
    /\ strk_df[2].strk_mths = 2

\* C12: after the segmentation pass strk_num, which counts the streaks
\* opened, equals the number of finalized streaks, the common length of
\* strk_df_lst, strk_cds_lst, strk_label_lst, max_cum_val_lst and
\* max_mth_val_lst: every opened streak has been closed, every index of
\* range(strk_num) the rendering loop uses is an index of these lists, and
\* the loop draws one line per streak.
C12_CountMatches ==
    /\ Segmented =>
          /\ strk_num = Len(strk_df_lst)
          /\ strk_num = Len(strk_cds_lst)
          /\ strk_num = Len(strk_label_lst)
          /\ strk_num = Len(max_cum_val_lst)
          /\ strk_num = Len(max_mth_val_lst)
          /\ strk_num = Cardinality(RunStarts)
    /\ err # ListIndexError
    /\ pc = "done" =>
          /\ Len(fig_lst) = strk_num
          /\ \A k \in 1..strk_num : fig_lst[k].source = strk_df_lst[k]

C12_Witness ==
    /\ pc = "done"
    /\ strk_num = 3
    /\ Len(fig_lst) = 3
    /\ PositiveAt(Len(usempl_df))
    /\ Len(strk_df_lst[3]) = 1

====
